---- MODULE Spec2Model ----
(***************************************************************************)
(* Model of the interactive terminal panel of solana-playground            *)
(* (client/src/components/Panels/Main/Terminal/Terminal.tsx).              *)
(*                                                                         *)
(* State: the panel height, the closed flag, the "down" class of the       *)
(* maximize button, the command buffer (command.current), the emulator's   *)
(* current line, the last value of the terminal output atom and the        *)
(* emulator focus.  Observation variables record the event handled last    *)
(* (ev), the calls its handler made to the emulator and the interpreter    *)
(* (calls) and the text put on the emulator's current line since the last  *)
(* prompt or line start (echo).                                            *)
(*                                                                         *)
(* Text is a sequence of tokens: one-character strings for typed or        *)
(* pasted characters, and named tokens for the newline, the SGR escape     *)
(* sequences and the fixed pieces of the "not found" message.              *)
(***************************************************************************)
EXTENDS Integers, Sequences, FiniteSets, TLC

VARIABLES height, isClosed, down, command, line, terminal, focused,
          ev, calls, echo, typed, nBack

vars == <<height, isClosed, down, command, line, terminal, focused,
          ev, calls, echo, typed, nBack>>

layoutVars == <<height, isClosed, down>>
histVars == <<typed, nBack>>
layoutFrame == <<command, line, terminal, echo, histVars>>

(***************************************************************************)
(* Bounds of the model.                                                    *)
(***************************************************************************)
\* longest command buffer explored
MaxLen == 3
\* pixel grid of the drag gesture and number of grid points above MIN_HEIGHT
DragStep == 10
MaxDragSteps == 48
\* most backspaces counted in the typing scenario
MaxBack == 5

(***************************************************************************)
(* PgTerminal constants (utils/pg, not part of the sources at hand): the   *)
(* values of the specification's example.                                  *)
(***************************************************************************)
DEFAULT_HEIGHT == 200
MIN_HEIGHT == 30
MAX_HEIGHT == 500

\* PgTerminal.PROMPT: a fixed marker string, here "$ ".
PROMPT == <<"$", " ">>

\* Tokens that are not one printable character.
NL == "\n"
SGR_ITALIC == "ESC[3m"
SGR_RED == "ESC[1;31m"
SGR_RESET == "ESC[0m"
SGR == {SGR_ITALIC, SGR_RED, SGR_RESET}

\* control bytes delivered as the key of a key event or held by a pasted text
FF == "x0c"
CR == "x0d"
LF == "x0a"
DEL == "x7f"
ESC == "x1b"

\* Characters the keyboard can type in the model: a letter, a blank and the
\* first character of the prompt marker.
Chars == {"a", " ", "$"}

\* String.prototype.trim's white space, restricted to the tokens of the model.
WhiteSpace == {" ", NL, LF, FF, CR}

Min(a, b) == IF a < b THEN a ELSE b
Max(a, b) == IF a > b THEN a ELSE b

(***************************************************************************)
(* JavaScript string functions used by the handlers.                       *)
(***************************************************************************)
RECURSIVE TrimStart(_)
TrimStart(s) ==
  IF s = <<>> THEN <<>>
  ELSE IF Head(s) \in WhiteSpace THEN TrimStart(Tail(s)) ELSE s

RECURSIVE TrimEnd(_)
TrimEnd(s) ==
  IF s = <<>> THEN <<>>
  ELSE IF s[Len(s)] \in WhiteSpace THEN TrimEnd(SubSeq(s, 1, Len(s) - 1)) ELSE s

\* s.trim()
Trim(s) == TrimEnd(TrimStart(s))

\* s.substring(0, end): end is clamped to 0..s.length
Substring0(s, end) == SubSeq(s, 1, Max(0, Min(end, Len(s))))

\* s.indexOf(pat) + 1, or 0 when pat does not occur in s
IndexOf(s, pat) ==
  LET hits == {i \in 1..(Len(s) - Len(pat) + 1) :
                 SubSeq(s, i, i + Len(pat) - 1) = pat}
  IN IF hits = {} THEN 0 ELSE CHOOSE i \in hits : \A j \in hits : i <= j

\* s.split(sep)[1]: the piece between the first and the second occurrence of
\* sep; <<"undefined">> stands for undefined (sep does not occur in s).
Undefined == <<"undefined">>
SplitSecond(s, sep) ==
  LET i == IndexOf(s, sep)
  IN IF i = 0 THEN Undefined
     ELSE LET rest == SubSeq(s, i + Len(sep), Len(s))
              j == IndexOf(rest, sep)
          IN IF j = 0 THEN rest ELSE SubSeq(rest, 1, j - 1)

(***************************************************************************)
(* The emulator (xterm): only its current line is kept, with the cursor    *)
(* at the end of it.                                                       *)
(***************************************************************************)
Call(op, text) == [op |-> op, text |-> text]

\* xterm.write(text): a newline (line feed, form feed) starts a fresh line,
\* an SGR sequence takes no cell, a carriage return moves the cursor only
\* (the cursor column is not kept: the line is left as it is), any other
\* token is put at the cursor.
RECURSIVE XWrite(_, _)
XWrite(l, text) ==
  IF text = <<>> THEN l
  ELSE IF Head(text) \in {NL, LF, FF} THEN XWrite(<<>>, Tail(text))
  ELSE IF Head(text) \in SGR \cup {CR} THEN XWrite(l, Tail(text))
  ELSE XWrite(Append(l, Head(text)), Tail(text))

\* the current line after one emulator call
XApply(l, c) ==
  CASE c.op = "write" -> XWrite(l, c.text)
    [] c.op = "writeln" -> XWrite(l, c.text \o <<NL>>)
    [] c.op = "clearCurrentLine" -> <<>>
    [] c.op = "removeLastChar" -> Substring0(l, Len(l) - 1)
    [] OTHER -> l

RECURSIVE XApplyAll(_, _)
XApplyAll(l, cs) ==
  IF cs = <<>> THEN l ELSE XApplyAll(XApply(l, Head(cs)), Tail(cs))

(***************************************************************************)
(* PgTerminal helpers (utils/pg), modelled from the specification.         *)
(***************************************************************************)
\* PgTerminal.isCharValid: printable, typeable characters only
IsCharValid(key) == key \in Chars

\* PgTerminal.italic: the text between the italic and the reset sequence
Italic(text) == <<SGR_ITALIC>> \o text \o <<SGR_RESET>>

\* PgTerminal.colorText: the text verbatim aside from colour tagging
ColorText(text) ==
  IF text = <<"error">> THEN <<SGR_RED>> \o text \o <<SGR_RESET>> ELSE text

\* PgTerminal.getCurrentLine: the text of the emulator's current line
GetCurrentLine(l) == l

\* what the emulator shows for a written text: the SGR sequences take no cell
RECURSIVE Rendered(_)
Rendered(text) ==
  IF text = <<>> THEN <<>>
  ELSE IF Head(text) \in SGR THEN Rendered(Tail(text))
  ELSE <<Head(text)>> \o Rendered(Tail(text))

(***************************************************************************)
(* Session layout: the state updaters of the three operations.             *)
(***************************************************************************)
\* the Resizable box: its rendered height is never below minHeight, and the
\* delta it reports is the rendered height the drag ends at (target) minus
\* the rendered height it started from
ResizableDelta(h, target) == target - Max(h, MIN_HEIGHT)

\* rendered heights a drag can end at
DragTargets == {MIN_HEIGHT + k * DragStep : k \in 0..MaxDragSteps}

\* a drag that is not clamped
ResizeStopHeightNoClamp(h, d) == h + d

\* handleResizeStop's updater
ResizeStopHeight(h, d) ==
  LET result == h + d
  IN IF result > MAX_HEIGHT THEN MAX_HEIGHT ELSE result

\* a toggle between the default and the maximized height only
ToggleMaximizeHeightDefaultOnly(h) ==
  IF h = DEFAULT_HEIGHT THEN MAX_HEIGHT ELSE DEFAULT_HEIGHT

\* toggleMaximize's updater: the height and the button's "down" class
ToggleMaximizeHeight(h) ==
  IF h = MAX_HEIGHT THEN DEFAULT_HEIGHT ELSE MAX_HEIGHT

ToggleMaximizeDown(h) == h # MAX_HEIGHT

\* toggleClose's two updaters
ToggleCloseIsClosed(c) == ~c

\* a panel collapsed to its topbar taken for a closed one
ToggleCloseHeightCollapsed(h) == IF h <= MIN_HEIGHT THEN DEFAULT_HEIGHT ELSE 0

ToggleCloseHeight(h) == IF h = 0 THEN DEFAULT_HEIGHT ELSE 0

\* an effect that does not depend on height
FitEffectOnce(h, h2) == <<>>

\* the effect on [fitAddon, height]: a re-fit after a render that changed height
FitEffect(h, h2) == IF h # h2 THEN <<Call("fit", <<>>)>> ELSE <<>>

DoToggleMaximize ==
  /\ height' = ToggleMaximizeHeight(height)
  /\ down' = ToggleMaximizeDown(height)
  /\ UNCHANGED isClosed

DoToggleClose ==
  /\ isClosed' = ToggleCloseIsClosed(isClosed)
  /\ height' = ToggleCloseHeight(height)
  /\ UNCHANGED down

(***************************************************************************)
(* Events.                                                                 *)
(***************************************************************************)
Ev(type, key, dom, valid, text, d) ==
  [type |-> type, key |-> key, dom |-> dom, valid |-> valid, text |-> text,
   d |-> d]

\* key events of the emulator: the character and the native key name
KeyEvents ==
  {[key |-> CR, dom |-> "Enter"], [key |-> DEL, dom |-> "Backspace"],
   [key |-> FF, dom |-> "l"], [key |-> CR, dom |-> "m"],
   [key |-> LF, dom |-> "j"], [key |-> ESC, dom |-> "Escape"]}
  \cup {[key |-> c, dom |-> c] : c \in Chars}

Init ==
  /\ height = DEFAULT_HEIGHT
  /\ isClosed = FALSE
  /\ down = FALSE
  /\ command = <<>>
  /\ line = PROMPT
  /\ terminal = PROMPT
  /\ focused = FALSE
  /\ ev = Ev("mount", "", "", FALSE, <<>>, 0)
  /\ calls = <<>>
  /\ echo = <<>>
  /\ typed = <<>>
  /\ nBack = 0

(***************************************************************************)
(* Layout handlers.                                                        *)
(***************************************************************************)
\* onResizeStop of the Resizable box
HandleResizeStop(target) ==
  LET d == ResizableDelta(height, target)
  IN /\ height' = ResizeStopHeight(height, d)
     /\ calls' = FitEffect(height, height')
     /\ ev' = Ev("resizeStop", "", "", FALSE, <<>>, d)
     /\ UNCHANGED <<isClosed, down, focused, layoutFrame>>

\* what calls handleResize: the window's resize event, the 3 second
\* interval and onResize of the Resizable box
ResizeSources == {"window", "interval", "drag"}

HandleResize(source) ==
  /\ calls' = <<Call("fit", <<>>)>>
  /\ ev' = Ev("resize", source, "", FALSE, <<>>, 0)
  /\ UNCHANGED <<layoutVars, focused, layoutFrame>>

\* the three buttons
ClickClear ==
  /\ calls' = <<Call("clear", <<>>)>>
  /\ line' = XApplyAll(line, calls')
  /\ ev' = Ev("click", "clear", "", FALSE, <<>>, 0)
  /\ UNCHANGED <<layoutVars, command, terminal, focused, echo, histVars>>

ClickToggleMaximize ==
  /\ DoToggleMaximize
  /\ calls' = FitEffect(height, height')
  /\ ev' = Ev("click", "toggleMaximize", "", FALSE, <<>>, 0)
  /\ UNCHANGED <<focused, layoutFrame>>

ClickToggleClose ==
  /\ DoToggleClose
  /\ calls' = FitEffect(height, height')
  /\ ev' = Ev("click", "toggleClose", "", FALSE, <<>>, 0)
  /\ UNCHANGED <<focused, layoutFrame>>

\* e.key.toUpperCase() on the keys of the model
ToUpperCase(k) ==
  CASE k = "l" -> "L" [] k = "j" -> "J" [] k = "m" -> "M" [] k = "c" -> "C"
    [] OTHER -> k

KeybindKeys == {"l", "L", "Backquote", "j", "m", "M", "c"}

\* a backquote keybind that does not look at the focus
KeybindOpNoFocusTest(key, ctrlOrCmd, isTerminalFocused) ==
  IF ~ctrlOrCmd THEN "none"
  ELSE IF key = "L" THEN "clear"
  ELSE IF key \in {"Backquote", "J"} THEN "toggleClose"
  ELSE IF key = "M" THEN "toggleMaximize"
  ELSE "none"

\* the operation handleKeybinds applies for an upper-cased key
KeybindOp(key, ctrlOrCmd, isTerminalFocused) ==
  IF ~ctrlOrCmd THEN "none"
  ELSE IF key = "L" THEN "clear"
  ELSE IF key = "Backquote" THEN
         (IF isTerminalFocused THEN "toggleClose" ELSE "focus")
  ELSE IF key = "J" THEN "toggleClose"
  ELSE IF key = "M" THEN "toggleMaximize"
  ELSE "none"

\* the document's keydown listener
HandleKeybinds(k, ctrlOrCmd) ==
  LET key == ToUpperCase(k)
      op == KeybindOp(key, ctrlOrCmd, focused)
  IN /\ CASE op = "toggleClose" -> DoToggleClose
          [] op = "toggleMaximize" -> DoToggleMaximize
          [] OTHER -> UNCHANGED layoutVars
     /\ focused' = IF op = "focus" THEN TRUE ELSE focused
     /\ calls' = (CASE op = "clear" -> <<Call("clear", <<>>)>>
                    [] op = "focus" -> <<Call("focus", <<>>)>>
                    [] OTHER -> <<>>) \o FitEffect(height, height')
     /\ line' = XApplyAll(line, calls')
     /\ ev' = Ev("keybind", k, "", ctrlOrCmd, <<>>, 0)
     /\ UNCHANGED <<command, terminal, echo, histVars>>

\* the user moves the input focus into or out of the emulator
FocusChange(f) ==
  /\ focused # f
  /\ focused' = f
  /\ calls' = <<>>
  /\ ev' = Ev(IF f THEN "focusin" ELSE "focusout", "", "", FALSE, <<>>, 0)
  /\ UNCHANGED <<layoutVars, layoutFrame>>

NextLayout ==
  \/ \E target \in DragTargets : HandleResizeStop(target)
  \/ \E source \in ResizeSources : HandleResize(source)
  \/ ClickClear
  \/ ClickToggleMaximize
  \/ ClickToggleClose
  \/ \E k \in KeybindKeys, c \in BOOLEAN : HandleKeybinds(k, c)
  \/ \E f \in BOOLEAN : FocusChange(f)

SpecLayout == Init /\ [][NextLayout]_vars

(***************************************************************************)
(* Key, paste and output handlers.                                         *)
(***************************************************************************)
\* the message with the buffer as typed, not trimmed
NotFoundTextNoTrim(cmd) ==
  <<"Command '">> \o Italic(cmd) \o <<"' not found.", NL, NL>> \o PROMPT

\* the text written after an unrecognized, non-empty command
NotFoundText(cmd) ==
  <<"Command '">> \o Italic(Trim(cmd)) \o <<"' not found.", NL, NL>> \o PROMPT

\* the Enter branch parsing the command before it writes the newline
EnterCallsParseFirst(cmd, isValidCommand) ==
  <<Call("parseCommand", cmd), Call("writeln", <<>>)>> \o
  (IF ~isValidCommand
     THEN IF cmd # <<>> THEN <<Call("write", NotFoundText(cmd))>>
                        ELSE <<Call("write", PROMPT)>>
     ELSE <<>>)

\* the Enter branch without the test for an empty buffer
EnterCallsNoEmptyTest(cmd, isValidCommand) ==
  <<Call("writeln", <<>>), Call("parseCommand", cmd)>> \o
  (IF ~isValidCommand THEN <<Call("write", NotFoundText(cmd))>> ELSE <<>>)

\* the Enter branch writing a prompt after a recognized command too
EnterCallsAlwaysPrompt(cmd, isValidCommand) ==
  <<Call("writeln", <<>>), Call("parseCommand", cmd)>> \o
  (IF ~isValidCommand /\ cmd # <<>>
     THEN <<Call("write", NotFoundText(cmd))>>
     ELSE <<Call("write", PROMPT)>>)

\* the calls of the Enter branch: the newline, PgTerminal.parseCommand on
\* the buffer, then what follows its verdict
EnterCalls(cmd, isValidCommand) ==
  <<Call("writeln", <<>>), Call("parseCommand", cmd)>> \o
  (IF ~isValidCommand
     THEN IF cmd # <<>> THEN <<Call("write", NotFoundText(cmd))>>
                        ELSE <<Call("write", PROMPT)>>
     ELSE <<>>)

\* a backspace that drops the first character of the buffer
BackspaceCommandDropFirst(cmd) == SubSeq(cmd, 2, Len(cmd))

\* the buffer after the Backspace branch
BackspaceCommand(cmd) == Substring0(cmd, Len(cmd) - 1)

\* a classifier that looks at the character before the native key name
KeyBranchByChar(key, dom, cmd) ==
  IF key = FF THEN "clear"
  ELSE IF key = CR THEN "toggleMaximize"
  ELSE IF key = LF THEN "toggleClose"
  ELSE IF dom = "Enter" THEN "enter"
  ELSE IF dom = "Backspace" /\ Len(cmd) >= 0 THEN "backspace"
  ELSE IF IsCharValid(key) THEN "char"
  ELSE "none"

\* the branch of handleKey a key event takes
KeyBranch(key, dom, cmd) ==
  IF dom = "Enter" THEN "enter"
  ELSE IF dom = "Backspace" /\ Len(cmd) >= 0 THEN "backspace"
  ELSE IF IsCharValid(key) THEN "char"
  ELSE IF key = FF THEN "clear"
  ELSE IF key = CR THEN "toggleMaximize"
  ELSE IF key = LF THEN "toggleClose"
  ELSE "none"

\* a buffer that the clear-screen byte empties as well
KeyCommandClearResets(br, cmd, key) ==
  CASE br \in {"enter", "clear"} -> <<>>
    [] br = "backspace" -> BackspaceCommand(cmd)
    [] br = "char" -> cmd \o <<key>>
    [] OTHER -> cmd

\* what handleKey's branch leaves in command.current
KeyCommand(br, cmd, key) ==
  CASE br = "enter" -> <<>>
    [] br = "backspace" -> BackspaceCommand(cmd)
    [] br = "char" -> cmd \o <<key>>
    [] OTHER -> cmd

\* handleKey, without the scenario counters
HandleKeyCore(key, dom, isValidCommand) ==
  LET br == KeyBranch(key, dom, command)
  IN /\ br = "char" => Len(command) < MaxLen
     /\ CASE br = "toggleMaximize" -> DoToggleMaximize
          [] br = "toggleClose" -> DoToggleClose
          [] OTHER -> UNCHANGED layoutVars
     /\ command' = KeyCommand(br, command, key)
     /\ calls' = (CASE br = "enter" -> EnterCalls(command, isValidCommand)
                    [] br = "backspace" -> <<Call("removeLastChar", <<>>)>>
                    [] br = "char" -> <<Call("write", <<key>>)>>
                    [] br = "clear" -> <<Call("clear", <<>>)>>
                    [] OTHER -> <<>>) \o FitEffect(height, height')
     /\ line' = XApplyAll(line, calls')
     /\ echo' = (CASE br = "enter" -> <<>>
                   [] br = "backspace" -> Substring0(echo, Len(echo) - 1)
                   [] br = "char" -> echo \o <<key>>
                   [] OTHER -> echo)
     /\ ev' = Ev("key", key, dom, isValidCommand /\ br = "enter", <<>>, 0)
     /\ UNCHANGED <<terminal, focused>>

HandleKey(key, dom, isValidCommand) ==
  /\ HandleKeyCore(key, dom, isValidCommand)
  /\ UNCHANGED histVars

\* texts the clipboard can hold
PasteTexts ==
  {<<>>} \cup {<<c>> : c \in Chars} \cup {<<c1, c2>> : c1 \in Chars, c2 \in Chars}

\* clipboard texts that hold the control bytes of Ctrl+L, Ctrl+M and Ctrl+J
\* (the last one is the newline)
PasteBytes == {"a", FF, CR, LF}
PasteTextsCtl ==
  {<<>>} \cup {<<c>> : c \in PasteBytes}
         \cup {<<c1, c2>> : c1 \in PasteBytes, c2 \in PasteBytes}

\* a paste that keeps only the characters the classifier accepts
PasteCommandValidated(cmd, pasteText) == cmd \o SelectSeq(pasteText, IsCharValid)

\* the buffer after a paste
PasteCommand(cmd, pasteText) == cmd \o pasteText

\* the paste listener of the emulator's textarea
HandlePaste(pasteText) ==
  /\ Len(command) + Len(pasteText) <= MaxLen
  /\ IF pasteText # <<>>
       THEN /\ calls' = <<Call("write", pasteText)>>
            /\ command' = PasteCommand(command, pasteText)
       ELSE /\ calls' = <<>>
            /\ UNCHANGED command
  /\ line' = XApplyAll(line, calls')
  /\ echo' = XWrite(echo, pasteText)
  /\ ev' = Ev("paste", "", "", FALSE, pasteText, 0)
  /\ UNCHANGED <<layoutVars, terminal, focused, histVars>>

\* whether the current line holds no command after the prompt
NoCmd(currentLine) ==
  LET piece == SplitSecond(currentLine, PROMPT)
  IN IF piece = Undefined THEN TRUE ELSE Len(Trim(piece)) = 0

\* the new-output effect writing every text, the prompt too, as a line
OutputCallsAlwaysLine(noCmd, text) ==
  <<IF noCmd THEN Call("clearCurrentLine", <<>>) ELSE Call("writeln", <<>>)>>
  \o <<Call("writeln", ColorText(text))>>
  \o <<Call("scrollToBottom", <<>>)>>

\* the emulator calls of the new-output effect
OutputCalls(noCmd, text) ==
  <<IF noCmd THEN Call("clearCurrentLine", <<>>) ELSE Call("writeln", <<>>)>>
  \o <<IF text # PROMPT THEN Call("writeln", ColorText(text))
                        ELSE Call("write", PROMPT)>>
  \o <<Call("scrollToBottom", <<>>)>>

\* values the interpreter sets the output atom to
OutputTexts == {PROMPT, <<"ok">>, <<"error">>}

\* the effect on [terminal, xterm]: runs when the output atom changed
NewOutput(text) ==
  /\ text # terminal
  /\ terminal' = text
  /\ calls' = OutputCalls(NoCmd(GetCurrentLine(line)), text)
  /\ line' = XApplyAll(line, calls')
  /\ echo' = <<>>
  /\ ev' = Ev("output", "", "", FALSE, text, 0)
  /\ UNCHANGED <<layoutVars, command, focused, histVars>>

Next ==
  \/ \E k \in KeyEvents, v \in BOOLEAN : HandleKey(k.key, k.dom, v)
  \/ \E t \in PasteTexts : HandlePaste(t)
  \/ \E t \in OutputTexts : NewOutput(t)

Spec == Init /\ [][Next]_vars

(***************************************************************************)
(* The paste scenario: texts with control bytes are pasted between key     *)
(* events.                                                                 *)
(***************************************************************************)
NextPaste ==
  \/ \E t \in PasteTextsCtl : HandlePaste(t)
  \/ \E k \in KeyEvents \ {[key |-> c, dom |-> c] : c \in Chars},
        v \in BOOLEAN : HandleKey(k.key, k.dom, v)

SpecPaste == Init /\ [][NextPaste]_vars

(***************************************************************************)
(* The whole component: the layout handlers, the key, paste and output     *)
(* handlers and the copy handler together, on a short buffer, one          *)
(* printable character and a few drag targets and clipboard texts.         *)
(***************************************************************************)
\* longest command buffer explored when all handlers run together
AllLen == 1

\* drag targets explored when all handlers run together: the smallest
\* rendered height and one beyond the largest
AllDragTargets == {MIN_HEIGHT, MAX_HEIGHT + DragStep}

\* key events explored when all handlers run together: one printable
\* character and every other key
AllKeyEvents == KeyEvents \ {[key |-> c, dom |-> c] : c \in Chars \ {"a"}}

\* clipboard texts explored when all handlers run together
AllPasteTexts == {<<>>, <<"a">>, <<CR>>}

\* keys and event types that reach the custom key event handler
CustomEventKeys == {"c"}
CustomEventTypes == {"keydown", "keyup"}

\* handleCustomEvent: Ctrl/Cmd+C on keydown copies the selection
HandleCustomEvent(k, ctrlOrCmd, type) ==
  /\ calls' = IF ctrlOrCmd /\ type = "keydown" /\ ToUpperCase(k) = "C"
                THEN <<Call("getSelection", <<>>)>>
                ELSE <<>>
  /\ ev' = Ev("custom", k, type, ctrlOrCmd, <<>>, 0)
  /\ UNCHANGED <<layoutVars, focused, layoutFrame>>

NextAll ==
  \/ \E target \in AllDragTargets : HandleResizeStop(target)
  \/ \E source \in ResizeSources : HandleResize(source)
  \/ ClickClear
  \/ ClickToggleMaximize
  \/ ClickToggleClose
  \/ \E k \in KeybindKeys, c \in BOOLEAN : HandleKeybinds(k, c)
  \/ \E k \in CustomEventKeys, c \in BOOLEAN, t \in CustomEventTypes :
       HandleCustomEvent(k, c, t)
  \/ \E k \in AllKeyEvents, v \in BOOLEAN :
       HandleKey(k.key, k.dom, v) /\ Len(command') <= AllLen
  \/ \E t \in AllPasteTexts : HandlePaste(t) /\ Len(command') <= AllLen
  \/ \E t \in OutputTexts : NewOutput(t)

SpecAll == Init /\ [][NextAll]_vars

(***************************************************************************)
(* The typing scenario: printable characters typed into the empty buffer,  *)
(* then backspaces; typed and nBack count what was applied.                *)
(***************************************************************************)
TypeChar(c) ==
  /\ nBack = 0
  /\ HandleKeyCore(c, c, FALSE)
  /\ typed' = Append(typed, c)
  /\ UNCHANGED nBack

PressBackspace ==
  /\ nBack < MaxBack
  /\ HandleKeyCore(DEL, "Backspace", FALSE)
  /\ nBack' = nBack + 1
  /\ UNCHANGED typed

NextTyping ==
  \/ \E c \in Chars : TypeChar(c)
  \/ PressBackspace

SpecTyping == Init /\ [][NextTyping]_vars

(***************************************************************************)
(* Properties.                                                             *)
(***************************************************************************)
IsToggleMaximize(e) ==
  \/ e.type = "click" /\ e.key = "toggleMaximize"
  \/ e.type = "keybind" /\ e.valid /\ ToUpperCase(e.key) = "M"

IsToggleClose(e) ==
  \/ e.type = "click" /\ e.key = "toggleClose"
  \/ e.type = "keybind" /\ e.valid /\ ToUpperCase(e.key) = "J"

IsEnter(e) == e.type = "key" /\ e.dom = "Enter"

\* C11: a paste appends the pasted text verbatim to the buffer and writes it
\* to the emulator in one call, whatever bytes it holds: it does not submit,
\* delete or change the layout; an empty paste changes nothing.
C11_PasteVerbatim ==
  [][ev'.type = "paste"
       => /\ command' = command \o ev'.text
          /\ UNCHANGED <<layoutVars, terminal, focused>>
          /\ ev'.text # <<>> => calls' = <<Call("write", ev'.text)>>
          /\ ev'.text = <<>> => calls' = <<>> /\ UNCHANGED <<line, echo>>]_vars

C11_Witness ==
  /\ ev.type = "paste" /\ ev.text = <<CR, LF>>
  /\ command = <<"a", CR, LF>> /\ height = MAX_HEIGHT

\* C1: in every state reachable by toggleClose, toggleMaximize and drag
\* resize from the initial state, the closed flag is true exactly when the
\* height is 0.
C1_ClosedIffHeightZero == isClosed <=> (height = 0)

\* C2: after every drag resize the height lies in [MIN_HEIGHT, MAX_HEIGHT].
C2_DragClamped ==
  ev.type = "resizeStop" => (MIN_HEIGHT <= height /\ height <= MAX_HEIGHT)

\* C3: the command buffer equals the text put on the emulator's current
\* line since the last prompt was printed.
C3_LockStep == command = echo

\* the line holds the prompt marker and something other than white space
\* after it
HasTypedCmd(l) ==
  LET i == IndexOf(l, PROMPT)
  IN i # 0 /\ Trim(SubSeq(l, i + Len(PROMPT), Len(l))) # <<>>

\* C4: an output event that finds a non-blank command after the prompt on
\* the current line writes a newline first and never clears the line.
C4_OutputKeepsTyped ==
  [][(ev'.type = "output" /\ HasTypedCmd(line))
       => /\ calls'[1] = Call("writeln", <<>>)
          /\ \A i \in 1..Len(calls') : calls'[i].op # "clearCurrentLine"]_vars

\* C5: after printable characters followed by backspaces on the empty
\* buffer, the buffer is the prefix of the typed characters of length
\* max(0, typed - backspaces).
C5_TypedThenBackspace ==
  LET n == Max(0, Len(typed) - nBack)
  IN Len(command) = n /\ command = SubSeq(typed, 1, n)

C5_Witness == Len(typed) = 3 /\ nBack = 1 /\ Len(command) = 2

\* C6: toggleMaximize at MAX_HEIGHT yields DEFAULT_HEIGHT, at any other
\* height MAX_HEIGHT.
C6_ToggleMaximize ==
  [][IsToggleMaximize(ev')
       => height' = IF height = MAX_HEIGHT THEN DEFAULT_HEIGHT
                    ELSE MAX_HEIGHT]_vars

C6_Witness == IsToggleMaximize(ev) /\ height = DEFAULT_HEIGHT /\ ~down

\* C7: toggleClose from an open height yields 0 and from 0 yields
\* DEFAULT_HEIGHT, so a second call right after one that closed the panel
\* yields DEFAULT_HEIGHT.
C7_ToggleClose ==
  [][IsToggleClose(ev')
       => /\ height # 0 => height' = 0
          /\ height = 0 => height' = DEFAULT_HEIGHT
          /\ (IsToggleClose(ev) /\ height = 0) => height' = DEFAULT_HEIGHT]_vars

C7_Witness == IsToggleClose(ev) /\ height = DEFAULT_HEIGHT /\ down

\* C8: Enter on a non-empty buffer that is not recognized writes
\* "Command '<trimmed buffer>' not found.\n\n<PROMPT>" and empties the buffer.
C8_NotFound ==
  [][(IsEnter(ev') /\ ~ev'.valid /\ command # <<>>)
       => /\ Len(calls') = 3
          /\ calls'[3].op = "write"
          /\ Rendered(calls'[3].text) =
               <<"Command '">> \o Trim(command)
                 \o <<"' not found.", NL, NL>> \o PROMPT
          /\ command' = <<>>]_vars

C8_Witness ==
  /\ IsEnter(ev) /\ ~ev.valid /\ command = <<>> /\ Len(calls) = 3
  /\ Rendered(calls[3].text) =
       <<"Command '", "a", " ", "a", "' not found.", NL, NL>> \o PROMPT

\* C9: Enter on an empty buffer that is not recognized writes, after the
\* newline, the prompt marker and nothing else.
C9_BareEnter ==
  [][(IsEnter(ev') /\ ~ev'.valid /\ command = <<>>)
       => calls' = <<Call("writeln", <<>>), Call("parseCommand", <<>>),
                     Call("write", PROMPT)>>]_vars

C9_Witness ==
  /\ IsEnter(ev) /\ ~ev.valid
  /\ calls = <<Call("writeln", <<>>), Call("parseCommand", <<>>),
              Call("write", PROMPT)>>
  /\ line = PROMPT

\* C10: Enter on a recognized command writes nothing after the newline, and
\* after every Enter the buffer is empty.
C10_Recognized ==
  [][IsEnter(ev')
       => /\ command' = <<>>
          /\ ev'.valid => calls' = <<Call("writeln", <<>>),
                                      Call("parseCommand", command)>>]_vars

C10_Witness ==
  /\ IsEnter(ev) /\ ev.valid /\ command = <<>>
  /\ calls = <<Call("writeln", <<>>), Call("parseCommand", <<"a">>)>>
  /\ line = <<>>

IsKeybind(e, key) ==
  e.type = "keybind" /\ e.valid /\ ToUpperCase(e.key) = key

\* C12: the maximize button carries the "down" class exactly when the
\* height is MAX_HEIGHT.
C12_DownIffMaximized == down <=> (height = MAX_HEIGHT)

\* C15: primary modifier + backquote toggles close when the emulator has the
\* focus and otherwise only focuses it; primary modifier + J toggles close
\* and primary modifier + M toggles maximize whatever the focus.
C15_Keybinds ==
  [][/\ (IsKeybind(ev', "Backquote") /\ focused)
          => /\ isClosed' = ~isClosed
             /\ height' = (IF height = 0 THEN DEFAULT_HEIGHT ELSE 0)
     /\ (IsKeybind(ev', "Backquote") /\ ~focused)
          => /\ focused' /\ Call("focus", <<>>) = calls'[1]
             /\ UNCHANGED <<height, isClosed>>
     /\ IsKeybind(ev', "J")
          => /\ isClosed' = ~isClosed
             /\ height' = (IF height = 0 THEN DEFAULT_HEIGHT ELSE 0)
     /\ IsKeybind(ev', "M")
          => height' = (IF height = MAX_HEIGHT THEN DEFAULT_HEIGHT
                        ELSE MAX_HEIGHT)]_vars

C15_Witness ==
  /\ IsKeybind(ev, "Backquote") /\ focused
  /\ calls = <<Call("fit", <<>>)>> /\ isClosed /\ height = 0

\* C18: a step that changes the height ends with a re-fit of the emulator,
\* and so does every window resize event and every tick of the interval.
C18_Refit ==
  [][/\ height' # height
          => Len(calls') > 0 /\ calls'[Len(calls')] = Call("fit", <<>>)
     /\ ev'.type = "resize" => calls' = <<Call("fit", <<>>)>>]_vars

C18_Witness ==
  /\ ev.type = "resizeStop" /\ ev.d = DragStep - DEFAULT_HEIGHT + MIN_HEIGHT
  /\ height = MIN_HEIGHT + DragStep /\ calls = <<Call("fit", <<>>)>>

\* C20: the height never exceeds MAX_HEIGHT.
C20_HeightAtMostMax == height <= MAX_HEIGHT

C20_Witness ==
  /\ ev.type = "resizeStop" /\ ev.d > MAX_HEIGHT - MIN_HEIGHT
  /\ height = MAX_HEIGHT

\* a key event that is none of Enter, Backspace, a printable character,
\* Ctrl+L, Ctrl+M, Ctrl+J
IsUnmatchedKey(e) ==
  /\ e.type = "key" /\ e.dom \notin {"Enter", "Backspace"}
  /\ ~IsCharValid(e.key) /\ e.key \notin {FF, CR, LF}

HasCall(cs, op) == \E i \in 1..Len(cs) : cs[i].op = op

\* C13: a key event applies at most one action; a native Enter submits and
\* never toggles the layout; a key event that matches no action changes
\* neither the buffer, the emulator nor the session.
C13_OneAction ==
  [][/\ IsEnter(ev')
          => /\ UNCHANGED layoutVars
             /\ command' = <<>>
             /\ calls'[1] = Call("writeln", <<>>)
     /\ IsUnmatchedKey(ev')
          => /\ UNCHANGED <<command, line, echo, layoutVars, terminal, focused>>
             /\ calls' = <<>>
     /\ ev'.type = "key"
          => /\ ~(command' # command /\ layoutVars' # layoutVars)
             /\ HasCall(calls', "clear")
                  => UNCHANGED <<command, line, layoutVars>>
             /\ layoutVars' # layoutVars => line' = line]_vars

C13_Witness ==
  /\ IsEnter(ev) /\ ev.key = CR /\ ev.valid
  /\ height = DEFAULT_HEIGHT /\ ~down /\ ~isClosed
  /\ calls[1] = Call("writeln", <<>>) /\ command = <<>>

\* C14: Backspace on the empty buffer leaves the buffer empty and deletes
\* nothing of the emulator's current line.
C14_BackspaceOnEmpty ==
  [][(ev'.type = "key" /\ ev'.dom = "Backspace" /\ command = <<>>)
       => command' = <<>> /\ line' = line]_vars

\* C16: on every Enter the newline is written first, before the interpreter
\* is invoked and before any "not found" text or prompt is written.
C16_NewlineFirst ==
  IsEnter(ev)
    => /\ Len(calls) >= 2
       /\ calls[1] = Call("writeln", <<>>)
       /\ calls[2].op = "parseCommand"
       /\ \A i \in 3..Len(calls) : calls[i].op = "write"

C16_Witness ==
  /\ IsEnter(ev) /\ ~ev.valid /\ Len(calls) = 3
  /\ calls[2] = Call("parseCommand", <<" ", "a">>)

\* C17: rendering an output event whose text is exactly the prompt marker
\* writes the prompt with no newline after it; any other text is written as
\* one line ended by a newline and no prompt is written; in both cases the
\* view is scrolled to the bottom after the write.
C17_OutputRendering ==
  ev.type = "output"
    => /\ Len(calls) = 3
       /\ calls[1].op \in {"clearCurrentLine", "writeln"}
       /\ calls[1].text = <<>>
       /\ ev.text = PROMPT => calls[2] = Call("write", PROMPT) /\ line = PROMPT
       /\ ev.text # PROMPT
            => /\ calls[2].op = "writeln"
               /\ Rendered(calls[2].text) = ev.text
               /\ ~HasCall(calls, "write")
               /\ line = <<>>
       /\ calls[3] = Call("scrollToBottom", <<>>)

C17_Witness ==
  /\ ev.type = "output" /\ ev.text = PROMPT /\ command = <<"a", "a">>
  /\ calls = <<Call("writeln", <<>>), Call("write", PROMPT),
              Call("scrollToBottom", <<>>)>>

IsBackspaceKey(e) == e.type = "key" /\ e.dom = "Backspace"

IsPrintableKey(e) ==
  e.type = "key" /\ e.dom \notin {"Enter", "Backspace"} /\ e.key \in Chars

\* the events that edit the command buffer
IsBufferEvent(e) ==
  IsPrintableKey(e) \/ IsBackspaceKey(e) \/ IsEnter(e) \/ e.type = "paste"

\* C19: the command buffer is changed only by a printable key (append),
\* Backspace (delete last), Enter (clear) and paste (append); the toggles,
\* a drag, a re-fit, the clear-screen action (button, Ctrl+L byte, keybind),
\* copy and the rendering of an output event leave it unchanged; printable
\* keys, Backspace, Enter, paste and output events leave the height and the
\* closed flag unchanged.
C19_Frame ==
  [][/\ command' # command => IsBufferEvent(ev')
     /\ IsPrintableKey(ev') => command' = command \o <<ev'.key>>
     /\ IsBackspaceKey(ev') => command' = Substring0(command, Len(command) - 1)
     /\ IsEnter(ev') => command' = <<>>
     /\ ev'.type = "paste" => command' = command \o ev'.text
     /\ ~IsBufferEvent(ev') => command' = command
     /\ (IsBufferEvent(ev') \/ ev'.type = "output")
          => UNCHANGED <<height, isClosed>>]_vars

C19_Witness ==
  /\ ev.type = "key" /\ ev.key = FF /\ calls = <<Call("clear", <<>>)>>
  /\ command = <<"a">> /\ height = MAX_HEIGHT /\ down

====
